---- MODULE Spec2Model ----
(***************************************************************************)
(* Cluster discovery of cardano-clustered-wallets.                         *)
(*                                                                         *)
(* ClusteredWallet.discover (src/src/clustered-wallet/ClusteredWallet.ts)  *)
(* is an async function; it is modelled as a state machine whose steps are *)
(* the stretches of code between two awaits on the data source.  The data  *)
(* source (IBlockchainDataSource) is an input: it is drawn in Init and     *)
(* never changes during a run.                                             *)
(*                                                                         *)
(* A JavaScript Set iterates in insertion order, so every Set of the code  *)
(* is a sequence without repetitions here.  The arrays answered by the     *)
(* data source are listed in an order chosen when the request is answered. *)
(***************************************************************************)
EXTENDS Integers, Sequences, FiniteSets, TLC

\* ------------------------------------------------------------------ bounds
\* Longest array a single getUtxos answer may hold (repetitions allowed).
MaxUtxosPerAnswer == 2
\* The most addresses a reward account lists where every kind of address is
\* listed.
MaxListed == 3

\* ---------------------------------------------------------------- universe
Address == {"S", "T", "U"}
RewardAccount == {"K1", "K2"}
AssetId == {"tokA"}

\* null of JavaScript (an absent RewardAccountInfo, a wallet not yet built).
Null == [null |-> TRUE]
NoAddress == ""

Range(seq) == {seq[n] : n \in 1..Len(seq)}

\* All listings of a finite set as an array without repetitions.
Perms(set) ==
    {f \in [1..Cardinality(set) -> set] : {f[n] : n \in 1..Cardinality(set)} = set}

\* All arrays over set of length at most n.
SeqsUpTo(set, n) == UNION {[1..m -> set] : m \in 0..n}

\* ------------------------------------------------------------------ values
NoAssets == [a \in AssetId |-> 0]
ZeroValue == [coins |-> 0, assets |-> NoAssets]

AddValue(v, w) ==
    [coins |-> v.coins + w.coins,
     assets |-> [a \in AssetId |-> v.assets[a] + w.assets[a]]]

\* coalesceValueQuantities of @cardano-sdk/core: the pointwise sum of the
\* coins and of every asset quantity (an asset absent from a map counts 0).
RECURSIVE CoalesceValueQuantities(_)
CoalesceValueQuantities(values) ==
    IF values = <<>> THEN ZeroValue
    ELSE AddValue(Head(values), CoalesceValueQuantities(Tail(values)))

MapValue(utxos) == [n \in 1..Len(utxos) |-> utxos[n].value]

\* ------------------------------------------------------------ the UTXO pool
Utxo600 == [txHash |-> "h1", index |-> 0, address |-> "S",
            value |-> [coins |-> 600, assets |-> NoAssets]]
Utxo400 == [txHash |-> "h1", index |-> 1, address |-> "T",
            value |-> [coins |-> 400, assets |-> [a \in AssetId |-> 5]]]
Utxo7 == [txHash |-> "h2", index |-> 0, address |-> "U",
          value |-> [coins |-> 7, assets |-> [a \in AssetId |-> 3]]]
UtxoPool == {Utxo600, Utxo400, Utxo7}

Info50 == [stakingCredential |-> "K1", rewards |-> 50, stakedAmount |-> 1000,
           poolId |-> "P1"]
Info70 == [stakingCredential |-> "K2", rewards |-> 70, stakedAmount |-> 0,
           poolId |-> "none"]

VARIABLES
    dataSource,                 \* the IBlockchainDataSource handed to discover
    seedAddress,                \* discover's seedAddress
    pc,                         \* where discover stands
    clusterAddresses,           \* Set<string>, in insertion order
    clusterRewardAccounts,      \* Set<string>, in insertion order
    clusterUtxos,               \* Array<Utxo>
    addressToExplore,           \* Set<string>, in insertion order
    isDiscovering,
    address,                    \* the address popped in this iteration
    rewardAccounts,             \* what is left of the for-of over the answer
    rewardAccount,              \* the reward account being searched
    clusterAddressInfo,         \* Array<AddressInfo>
    clusterRewardAccountInfo,   \* Array<RewardAccountInfo>
    cursor,                     \* position of the running for-of over a Set
    wallet,                     \* the ClusteredWallet returned, Null before
    progressMonitor,            \* discover's progressMonitor: how it behaves
    progress,                   \* the messages handed to progressMonitor.update
    requests,                   \* history: calls and returns of the data source
    rejection,                  \* why discover's promise rejected, Null if not
    console,                    \* what run() has printed of the results
    running,                    \* the discover call whose locals the above are
    suspended                   \* the locals of a second call, Null if none

vars == <<dataSource, seedAddress, pc, clusterAddresses, clusterRewardAccounts,
          clusterUtxos, addressToExplore, isDiscovering, address,
          rewardAccounts, rewardAccount, clusterAddressInfo,
          clusterRewardAccountInfo, cursor, wallet, progressMonitor,
          progress, requests, rejection, console, running, suspended>>

\* ------------------------------------------------------------ data source
\* The four lookups of IBlockchainDataSource that discover uses.  The
\* answers are the data source's; only their listing order is open.
GetRewardAccounts(addr) == dataSource.rewardAccounts[addr]

GetAddressesOfAny(account) ==
    UNION {dataSource.addresses[k] : k \in RewardAccount}

GetAddresses(account) == dataSource.addresses[account]

GetUtxos(addr) == dataSource.utxos[addr]

GetRewardAccountInfo(account) == dataSource.info[account]

\* ----------------------------------------------------------- Set helpers
PopFromSetKeeping(set) == [value |-> Head(set), set |-> set]

\* _popFromSet: the first value in insertion order, deleted from the set.
PopFromSet(set) == [value |-> Head(set), set |-> Tail(set)]

AppendAlways(set, value) == Append(set, value)

\* Set.prototype.add on an insertion-ordered set.
SetAdd(set, value) == IF value \in Range(set) THEN set ELSE Append(set, value)

RECURSIVE InsertAll(_, _)
InsertAll(array, set) ==
    IF array = <<>> THEN set
    ELSE InsertAll(Tail(array), SetAdd(set, Head(array)))

InsertFirstOnly(array, set) ==
    IF array = <<>> THEN set ELSE SetAdd(set, Head(array))

\* _insertRangeInSet
InsertRangeInSet(array, set) == InsertAll(array, set)

\* The reward accounts still to visit once the head of the answer is done.
BreakAfterFirst(accounts) == <<>>

RestOfRewardAccounts(accounts) == Tail(accounts)

\* ------------------------------------------------------ credential resolver
\* The addresses the failure cases need besides Address: an enterprise
\* address with a key, one with a script, a pointer address, a reward
\* address and a string that is no bech32 address.
AnyAddress == Address \cup {"E", "Z", "P", "R", "X"}

Threw == [threw |-> TRUE, value |-> "error"]
Ok(value) == [threw |-> FALSE, value |-> value]

\* null where the code has string | null.
NullString == "null"

\* Cardano.Address.fromBech32: the structure an address string stands for.
\* S and T share the payment key p1, T and U share the stake key sk2.
FromBech32(addr) ==
    CASE addr = "S" -> Ok([type |-> "base", stake |-> "sk1",
                           payment |-> [type |-> "key", hash |-> "p1"]])
      [] addr = "T" -> Ok([type |-> "base", stake |-> "sk2",
                           payment |-> [type |-> "key", hash |-> "p1"]])
      [] addr = "U" -> Ok([type |-> "base", stake |-> "sk2",
                           payment |-> [type |-> "key", hash |-> "p2"]])
      [] addr = "E" -> Ok([type |-> "enterprise",
                           payment |-> [type |-> "key", hash |-> "p3"]])
      [] addr = "Z" -> Ok([type |-> "enterprise",
                           payment |-> [type |-> "script", hash |-> "s1"]])
      [] addr = "P" -> Ok([type |-> "pointer",
                           payment |-> [type |-> "key", hash |-> "p4"]])
      [] addr = "R" -> Ok([type |-> "reward", stake |-> "sk1"])
      [] OTHER -> Threw

\* BaseEncoding.bech32.encode('addr_vkh', words of the hash)
EncodeVkh(hash) == <<"addr_vkh", hash>>

\* Cardano.RewardAddress.fromCredentials(networkId, credential).toBech32()
RewardAddressFromCredentials(networkId, hash) ==
    IF networkId = 0
    THEN (IF hash = "sk1" THEN "K1" ELSE "K2")
    ELSE (IF hash = "sk1" THEN "M1" ELSE "M2")

\* getPaymentCredential: asEnterprise()?.getPaymentCredential(), replaced by
\* the base address's when asBase() is truthy; .hash of undefined throws.
GetPaymentCredential(addr) ==
    LET decoded == FromBech32(addr)
    IN  IF decoded.threw THEN Threw
        ELSE IF decoded.value.type \in {"base", "enterprise"}
             THEN Ok(EncodeVkh(decoded.value.payment.hash))
             ELSE Threw

\* getStakingCredential: null unless asBase() has a stake credential.
GetStakingCredential(addr, networkId) ==
    LET decoded == FromBech32(addr)
    IN  IF decoded.threw THEN Threw
        ELSE IF decoded.value.type = "base"
             THEN Ok(RewardAddressFromCredentials(networkId, decoded.value.stake))
             ELSE Ok(NullString)

\* ------------------------------------------------------------ aggregation
SameOutput(t, value) == t.txHash = value.txHash /\ t.index = value.index

\* Array.prototype.findIndex with the predicate of line 144-146; only used
\* on elements of self, so a match exists.
FindIndex(self, value) ==
    CHOOSE n \in 1..Len(self) :
        /\ SameOutput(self[n], value)
        /\ \A m \in 1..(n - 1) : ~SameOutput(self[m], value)

RECURSIVE FilterFrom(_, _)
FilterFrom(self, n) ==
    IF n > Len(self) THEN <<>>
    ELSE IF n = FindIndex(self, self[n])
         THEN <<self[n]>> \o FilterFrom(self, n + 1)
         ELSE FilterFrom(self, n + 1)

KeepAll(utxos) == utxos

\* wallet._utxos: clusterUtxos.filter(index === self.findIndex(same output))
DedupUtxos(utxos) == FilterFrom(utxos, 1)

RECURSIVE SumRewards(_)
SumRewards(infos) ==
    IF infos = <<>> THEN 0
    ELSE Head(infos).rewards + SumRewards(Tail(infos))

AddressInfoDeduped(addr, utxos) ==
    [address |-> addr, utxos |-> utxos,
     balance |-> CoalesceValueQuantities(MapValue(DedupUtxos(utxos))),
     paymentCredential |-> GetPaymentCredential(addr).value,
     stakingCredential |->
         GetStakingCredential(addr, dataSource.networkId).value]

\* The AddressInfo pushed at lines 124-130.
AddressInfoOf(addr, utxos) ==
    [address |-> addr, utxos |-> utxos,
     balance |-> CoalesceValueQuantities(MapValue(utxos)),
     paymentCredential |-> GetPaymentCredential(addr).value,
     stakingCredential |->
         GetStakingCredential(addr, dataSource.networkId).value]

BuildWalletBalanceOfAll(utxos, addressInfo, rewardInfo) ==
    [utxos |-> DedupUtxos(utxos),
     balance |-> CoalesceValueQuantities(MapValue(utxos)),
     rewards |-> SumRewards(rewardInfo),
     clusterAddresses |-> addressInfo,
     clusterRewardAccounts |-> rewardInfo]

\* new ClusteredWallet() and the assignments to its fields.
BuildWallet(utxos, addressInfo, rewardInfo) ==
    LET kept == DedupUtxos(utxos)
    IN  [utxos |-> kept,
         balance |-> CoalesceValueQuantities(MapValue(kept)),
         rewards |-> SumRewards(rewardInfo),
         clusterAddresses |-> addressInfo,
         clusterRewardAccounts |-> rewardInfo]

EmptyInfo(account) ==
    [stakingCredential |-> account, rewards |-> 0, stakedAmount |-> 0,
     poolId |-> "none"]

PushAlways(infos, account, info) ==
    Append(infos, IF info = Null THEN EmptyInfo(account) ELSE info)

\* if (rewardAccountInfo !== null) clusterRewardAccountInfo.push(...)
PushRewardAccountInfo(infos, account, info) ==
    IF info # Null THEN Append(infos, info) ELSE infos

\* ------------------------------------------------- renderDelegationState
\* A BigNumber: Infinity, NaN or an integer part with decimal digits.
Infinity == [kind |-> "Infinity"]
NaN == [kind |-> "NaN"]

RECURSIVE LongDivision(_, _, _)
\* The first n decimal digits of rem / b, for rem < b.
LongDivision(rem, b, n) ==
    IF n = 0 THEN <<>>
    ELSE <<(rem * 10) \div b>> \o LongDivision((rem * 10) % b, b, n - 1)

RECURSIVE RemainderAfter(_, _, _)
RemainderAfter(rem, b, n) ==
    IF n = 0 THEN rem ELSE RemainderAfter((rem * 10) % b, b, n - 1)

RECURSIVE AddUlp(_, _)
\* One unit added at the k-th decimal digit, with carry.
AddUlp(x, k) ==
    IF k = 0 THEN [x EXCEPT !.int = @ + 1]
    ELSE IF x.frac[k] = 9 THEN AddUlp([x EXCEPT !.frac[k] = 0], k - 1)
    ELSE [x EXCEPT !.frac[k] = @ + 1]

\* new BigNumber(a).dividedBy(b) for non-negative integers: BigNumber's
\* default configuration keeps 20 decimal places, rounding half up.
DividedBy(a, b) ==
    IF b = 0 THEN (IF a = 0 THEN NaN ELSE Infinity)
    ELSE LET truncated == [kind |-> "finite", int |-> a \div b,
                           frac |-> LongDivision(a % b, b, 20)]
         IN  IF 2 * RemainderAfter(a % b, b, 20) >= b
             THEN AddUlp(truncated, 20)
             ELSE truncated

\* .multipliedBy('100'): exact, the decimal point moves two digits.
MultipliedByHundred(x) ==
    IF x.kind # "finite" THEN x
    ELSE [kind |-> "finite",
          int |-> x.int * 100 + x.frac[1] * 10 + x.frac[2],
          frac |-> SubSeq(x.frac, 3, Len(x.frac))]

ToFixedHalfUp(x, dp) ==
    LET cut == [x EXCEPT !.frac = SubSeq(x.frac, 1, dp)]
    IN  IF x.frac[dp + 1] >= 5 THEN AddUlp(cut, dp) ELSE cut

\* .toFixed(dp, BigNumber.ROUND_DOWN): the digits after the dp-th are cut.
ToFixed(x, dp) ==
    IF x.kind # "finite" THEN x
    ELSE [x EXCEPT !.frac = [n \in 1..dp |->
                               IF n <= Len(x.frac) THEN x.frac[n] ELSE 0]]

\* Line 42.
StakedPercentage(stakedAmount, totalBalance) ==
    ToFixed(MultipliedByHundred(DividedBy(stakedAmount, totalBalance)), 4)

\* renderDelegationState: one entry per account; poolId "none" is null.
RenderDelegationState(accounts, totalBalance) ==
    [n \in 1..Len(accounts) |->
        [stakingCredential |-> accounts[n].stakingCredential,
         stakedAmount |-> accounts[n].stakedAmount,
         stakedPercentage |->
             StakedPercentage(accounts[n].stakedAmount, totalBalance),
         delegation |-> IF accounts[n].poolId = "none" THEN "unstaked"
                        ELSE "staked with pool",
         poolId |-> accounts[n].poolId]]

\* ------------------------------------------------------ progress, history
UpdateTwice(messages, message) == Append(Append(messages, message), message)

\* progressMonitor?.update(message): nothing without a monitor.
Update(messages, message) ==
    IF progressMonitor = "absent" THEN messages ELSE Append(messages, message)

\* A call of the data source is issued; its promise is settled.
Call(history, op, arg) ==
    Append(history, [event |-> "call", op |-> op, arg |-> arg])

Return(history, op, arg) ==
    Append(history, [event |-> "return", op |-> op, arg |-> arg])

NotAwaited(history, op, arg) == Call(history, op, arg)

\* await blockchainExplorer.op(arg) taken in one step: issued and settled.
Await(history, op, arg) == Return(Call(history, op, arg), op, arg)

\* ------------------------------------------- BlockfrostBlockchainDataSource
\* What the Blockfrost service holds: whether it can be reached, the
\* addresses that ever appeared on chain and the outputs still unspent.
PoolOrder == <<Utxo600, Utxo400, Utxo7>>

ApiStates ==
    {api \in [reachable : BOOLEAN, seen : SUBSET {"S", "T", "U", "E"},
              unspent : SUBSET UtxoPool] :
        \A u \in api.unspent : u.address \in api.seen}

\* An output as the service lists it: the amount is a list of unit and
\* quantity, the coins under the unit 'lovelace'.
ApiUtxo(u) ==
    [address |-> u.address, tx_hash |-> u.txHash, output_index |-> u.index,
     amount |-> <<[unit |-> "lovelace", quantity |-> u.value.coins]>> \o
                (IF u.value.assets["tokA"] > 0
                 THEN <<[unit |-> "tokA", quantity |-> u.value.assets["tokA"]]>>
                 ELSE <<>>)]

ApiAccount(k) ==
    IF k = "K1"
    THEN [withdrawable_amount |-> 50, controlled_amount |-> 1000,
          pool_id |-> "P1"]
    ELSE [withdrawable_amount |-> 70, controlled_amount |-> 0,
          pool_id |-> "none"]

\* this._api.addressesUtxos(vkh): the unspent outputs of every address with
\* this payment credential; the service answers 404, and the client raises,
\* when no such address ever appeared; it raises when it cannot be reached.
ApiAddressesUtxos(api, vkh) ==
    LET located == {a \in api.seen : GetPaymentCredential(a).value = vkh}
        At(u) == u \in api.unspent /\ u.address \in located
        listed == SelectSeq(PoolOrder, At)
    IN  IF ~api.reachable \/ located = {} THEN Threw
        ELSE Ok([n \in 1..Len(listed) |-> ApiUtxo(listed[n])])

\* this._api.accounts(rewardAccount)
ApiAccounts(api, k) ==
    LET known == \E a \in api.seen :
                     GetStakingCredential(a, 0).value = k
    IN  IF ~api.reachable \/ ~known THEN Threw ELSE Ok(ApiAccount(k))

\* this._api.accountsAddresses(stakeCredential)
ApiAccountsAddresses(api, k) ==
    LET associated == {a \in api.seen :
                           GetStakingCredential(a, 0).value = k}
    IN  IF ~api.reachable \/ associated = {} THEN Threw
        ELSE Ok({[address |-> a] : a \in associated})

\* The quantity of the entry of a unit, 0 when the amount has no such entry.
QuantityOf(amount, unit) ==
    IF \E n \in 1..Len(amount) : amount[n].unit = unit
    THEN amount[CHOOSE n \in 1..Len(amount) : amount[n].unit = unit].quantity
    ELSE 0

\* getUtxos: neither the resolution of the credential nor the request is
\* inside a try.
BfGetUtxos(api, addr) ==
    LET vkh == GetPaymentCredential(addr)
        result == ApiAddressesUtxos(api, vkh.value)
    IN  IF vkh.threw THEN Threw
        ELSE IF result.threw THEN Threw
        ELSE Ok([n \in 1..Len(result.value) |->
                   LET utxo == result.value[n]
                   IN  [address |-> utxo.address,
                        txHash |-> utxo.tx_hash,
                        index |-> utxo.output_index,
                        value |-> [coins |-> QuantityOf(utxo.amount, "lovelace"),
                                   assets |-> [a \in AssetId |->
                                                 QuantityOf(utxo.amount, a)]]]])

\* getRewardAccounts: the staking credentials of the UTXOs, without null and
\* without repetition.
BfGetRewardAccounts(api, networkId, addr) ==
    LET utxos == BfGetUtxos(api, addr)
    IN  IF utxos.threw THEN Threw
        ELSE Ok({GetStakingCredential(utxos.value[n].address, networkId).value :
                    n \in 1..Len(utxos.value)} \ {NullString})

\* getRewardAccountInfo: null when the request raises.
BfGetRewardAccountInfo(api, k) ==
    LET account == ApiAccounts(api, k)
    IN  IF account.threw THEN Null
        ELSE [stakingCredential |-> k,
              rewards |-> account.value.withdrawable_amount,
              stakedAmount |-> account.value.controlled_amount,
              poolId |-> account.value.pool_id]

\* getAddresses: [] when the request raises.
BfGetAddresses(api, k) ==
    LET addresses == ApiAccountsAddresses(api, k)
    IN  IF addresses.threw THEN {}
        ELSE {entry.address : entry \in addresses.value}

\* new BlockfrostBlockchainDataSource(api, isTestnet), as the answers it
\* gives and the requests whose promise it rejects.
BlockfrostBlockchainDataSource(api, isTestnet) ==
    LET networkId == IF isTestnet THEN 0 ELSE 1
    IN  [networkId |-> networkId,
         api |-> api,
         rewardAccounts |-> [a \in AnyAddress |->
             IF BfGetRewardAccounts(api, networkId, a).threw THEN {}
             ELSE BfGetRewardAccounts(api, networkId, a).value],
         addresses |-> [k \in RewardAccount |-> BfGetAddresses(api, k)],
         utxos |-> [a \in AnyAddress |->
             IF BfGetUtxos(api, a).threw THEN <<>>
             ELSE BfGetUtxos(api, a).value],
         info |-> [k \in RewardAccount |-> BfGetRewardAccountInfo(api, k)],
         rejects |->
             {<<"getRewardAccounts", a>> : a \in
                 {b \in AnyAddress : BfGetRewardAccounts(api, networkId, b).threw}}
             \cup
             {<<"getUtxos", a>> : a \in
                 {b \in AnyAddress : BfGetUtxos(api, b).threw}}]

\* ------------------------------------------------------------------ Init
BaseUtxos == [a \in Address |->
    IF a = "S" THEN <<Utxo600>> ELSE IF a = "T" THEN <<Utxo400>> ELSE <<Utxo7>>]

BaseInfo == [k \in RewardAccount |-> IF k = "K1" THEN Info50 ELSE Null]

InfoChoices(k) == IF k = "K1" THEN {Null, Info50} ELSE {Null, Info70}

\* Every credential graph over the universe, with the base UTXOs and infos.
GraphSources ==
    {[networkId |-> 0, rewardAccounts |-> ra, addresses |-> ad,
      utxos |-> BaseUtxos, info |-> BaseInfo] :
        ra \in [Address -> SUBSET RewardAccount],
        ad \in [RewardAccount -> SUBSET Address]}

\* One graph (S has K1 and K2; K1 gives S and T, K2 gives T), with every
\* UTXO answer for S and T and every availability of the infos.
AggregateSources ==
    {[networkId |-> 0,
      rewardAccounts |-> [a \in Address |->
                            IF a = "S" THEN {"K1", "K2"}
                            ELSE IF a = "T" THEN {"K1"} ELSE {}],
      addresses |-> [k \in RewardAccount |->
                            IF k = "K1" THEN {"S", "T"} ELSE {"T"}],
      utxos |-> [a \in Address |->
                            IF a = "S" THEN us ELSE IF a = "T" THEN ut
                            ELSE <<>>],
      info |-> [k \in RewardAccount |-> IF k = "K1" THEN i1 ELSE i2]] :
        us \in SeqsUpTo(UtxoPool, MaxUtxosPerAnswer),
        ut \in SeqsUpTo(UtxoPool, MaxUtxosPerAnswer),
        i1 \in InfoChoices("K1"), i2 \in InfoChoices("K2")}

InitRun ==
    /\ pc = "start"
    /\ clusterAddresses = <<>>
    /\ clusterRewardAccounts = <<>>
    /\ clusterUtxos = <<>>
    /\ addressToExplore = <<>>
    /\ isDiscovering = TRUE
    /\ address = NoAddress
    /\ rewardAccounts = <<>>
    /\ rewardAccount = NoAddress
    /\ clusterAddressInfo = <<>>
    /\ clusterRewardAccountInfo = <<>>
    /\ cursor = 0
    /\ wallet = Null
    /\ progress = <<>>
    /\ requests = <<>>
    /\ rejection = Null
    /\ console = <<>>

\* The graphs are explored with a progress monitor, the aggregates without.
Init ==
    /\ running = 1
    /\ suspended = Null
    /\ \/ /\ seedAddress \in Address
          /\ dataSource \in GraphSources
          /\ progressMonitor = "present"
       \/ /\ seedAddress = "S"
          /\ dataSource \in AggregateSources
          /\ progressMonitor = "absent"
    /\ InitRun

\* --------------------------------------------------------------- discover
\* Lines 77-86: the sets are created and the seed becomes the frontier.
Discover ==
    /\ pc = "start"
    /\ addressToExplore' = SetAdd(<<>>, seedAddress)
    /\ isDiscovering' = TRUE
    /\ pc' = "loop"
    /\ progress' = Update(progress, [text |-> "Starting cluster discovery from seed",
                                      address |-> seedAddress])
    /\ UNCHANGED requests
    /\ UNCHANGED <<dataSource, seedAddress, progressMonitor, rejection, console, running, suspended, clusterAddresses,
                   clusterRewardAccounts, clusterUtxos, address,
                   rewardAccounts, rewardAccount, clusterAddressInfo,
                   clusterRewardAccountInfo, cursor, wallet>>

\* Lines 87-88: the while condition fails or the frontier is empty.
LoopExit ==
    /\ pc = "loop"
    /\ ~isDiscovering \/ Len(addressToExplore) = 0
    /\ pc' = "utxos"
    /\ cursor' = 1
    /\ UNCHANGED <<progress, requests>>
    /\ UNCHANGED <<dataSource, seedAddress, progressMonitor, rejection, console, running, suspended, clusterAddresses,
                   clusterRewardAccounts, clusterUtxos, addressToExplore,
                   isDiscovering, address, rewardAccounts, rewardAccount,
                   clusterAddressInfo, clusterRewardAccountInfo, wallet>>

\* Lines 90-92: the popped address is already a cluster address: continue.
PopVisitedAs(popped) ==
    /\ pc = "loop"
    /\ isDiscovering /\ Len(addressToExplore) > 0
    /\ popped.value \in Range(clusterAddresses)
    /\ addressToExplore' = popped.set
    /\ address' = popped.value
    /\ UNCHANGED <<progress, requests>>
    /\ UNCHANGED <<dataSource, seedAddress, progressMonitor, rejection, console, running, suspended, pc, clusterAddresses,
                   clusterRewardAccounts, clusterUtxos, isDiscovering,
                   rewardAccounts, rewardAccount, clusterAddressInfo,
                   clusterRewardAccountInfo, cursor, wallet>>

\* Lines 90-96: the popped address is not a cluster address: its reward
\* accounts are requested.
PopExpandAs(popped) ==
    /\ pc = "loop"
    /\ isDiscovering /\ Len(addressToExplore) > 0
    /\ popped.value \notin Range(clusterAddresses)
    /\ addressToExplore' = popped.set
    /\ address' = popped.value
    /\ pc' = "getRewardAccounts"
    /\ progress' = Update(progress, [text |-> "Getting reward accounts for",
                                      address |-> popped.value])
    /\ requests' = Call(requests, "getRewardAccounts", popped.value)
    /\ UNCHANGED <<dataSource, seedAddress, progressMonitor, rejection, console, running, suspended, clusterAddresses,
                   clusterRewardAccounts, clusterUtxos, isDiscovering,
                   rewardAccounts, rewardAccount, clusterAddressInfo,
                   clusterRewardAccountInfo, cursor, wallet>>

PopVisited == PopVisitedAs(PopFromSet(addressToExplore))

PopExpand == PopExpandAs(PopFromSet(addressToExplore))

\* Line 96: getRewardAccounts(address) is answered.
ReceiveRewardAccounts ==
    /\ pc = "getRewardAccounts"
    /\ \E answer \in Perms(GetRewardAccounts(address)) :
           rewardAccounts' = answer
    /\ pc' = "forRewardAccounts"
    /\ requests' = Return(requests, "getRewardAccounts", address)
    /\ UNCHANGED progress
    /\ UNCHANGED <<dataSource, seedAddress, progressMonitor, rejection, console, running, suspended, clusterAddresses,
                   clusterRewardAccounts, clusterUtxos, addressToExplore,
                   isDiscovering, address, rewardAccount, clusterAddressInfo,
                   clusterRewardAccountInfo, cursor, wallet>>

\* Lines 98-104: the next reward account of the answer; a visited one is
\* skipped, a new one is marked visited and its addresses are requested.
NextRewardAccount ==
    /\ pc = "forRewardAccounts"
    /\ Len(rewardAccounts) > 0
    /\ IF Head(rewardAccounts) \in Range(clusterRewardAccounts)
       THEN /\ rewardAccounts' = RestOfRewardAccounts(rewardAccounts)
            /\ UNCHANGED <<pc, clusterRewardAccounts, rewardAccount,
                           progress, requests>>
       ELSE /\ clusterRewardAccounts' =
                   SetAdd(clusterRewardAccounts, Head(rewardAccounts))
            /\ rewardAccount' = Head(rewardAccounts)
            /\ progress' = Update(progress, [text |-> "Searching for new addresses",
                                             rewardAccount |-> Head(rewardAccounts)])
            /\ requests' = Call(requests, "getAddresses", Head(rewardAccounts))
            /\ pc' = "getAddresses"
            /\ UNCHANGED rewardAccounts
    /\ UNCHANGED <<dataSource, seedAddress, progressMonitor, rejection, console, running, suspended, clusterAddresses, clusterUtxos,
                   addressToExplore, isDiscovering, address,
                   clusterAddressInfo, clusterRewardAccountInfo, cursor,
                   wallet>>

\* Lines 104-111: getAddresses(rewardAccount) is answered; the addresses go
\* to the frontier and to the cluster.
ReceiveAddresses ==
    /\ pc = "getAddresses"
    /\ \E answer \in Perms(GetAddresses(rewardAccount)) :
           /\ addressToExplore' = InsertRangeInSet(answer, addressToExplore)
           /\ clusterAddresses' = InsertRangeInSet(answer, clusterAddresses)
    /\ rewardAccounts' = RestOfRewardAccounts(rewardAccounts)
    /\ pc' = "forRewardAccounts"
    /\ progress' = Update(progress,
                          [text |-> "Found new addresses",
                           count |-> Len(clusterAddresses') - Len(clusterAddresses)])
    /\ requests' = Return(requests, "getAddresses", rewardAccount)
    /\ UNCHANGED <<dataSource, seedAddress, progressMonitor, rejection, console, running, suspended, clusterRewardAccounts,
                   clusterUtxos, isDiscovering, address, rewardAccount,
                   clusterAddressInfo, clusterRewardAccountInfo, cursor,
                   wallet>>

\* Line 114: the answer is used up; the iteration of the while loop ends.
EndOfRewardAccounts ==
    /\ pc = "forRewardAccounts"
    /\ Len(rewardAccounts) = 0
    /\ isDiscovering' = (Len(addressToExplore) > 0)
    /\ pc' = "loop"
    /\ UNCHANGED <<progress, requests>>
    /\ UNCHANGED <<dataSource, seedAddress, progressMonitor, rejection, console, running, suspended, clusterAddresses,
                   clusterRewardAccounts, clusterUtxos, addressToExplore,
                   address, rewardAccounts, rewardAccount, clusterAddressInfo,
                   clusterRewardAccountInfo, cursor, wallet>>

\* Lines 118-131: one cluster address: its UTXOs are fetched and kept, and
\* its AddressInfo is built.
FetchUtxos ==
    /\ pc = "utxos"
    /\ cursor <= Len(clusterAddresses)
    /\ LET clusterAddress == clusterAddresses[cursor]
           utxos == GetUtxos(clusterAddress)
       IN  /\ clusterUtxos' = clusterUtxos \o utxos
           /\ clusterAddressInfo' =
                  Append(clusterAddressInfo, AddressInfoOf(clusterAddress, utxos))
    /\ cursor' = cursor + 1
    /\ requests' = Await(requests, "getUtxos", clusterAddresses[cursor])
    /\ UNCHANGED progress
    /\ UNCHANGED <<dataSource, seedAddress, progressMonitor, rejection, console, running, suspended, pc, clusterAddresses,
                   clusterRewardAccounts, addressToExplore, isDiscovering,
                   address, rewardAccounts, rewardAccount,
                   clusterRewardAccountInfo, wallet>>

\* Line 118 to 134: the for-of over clusterAddresses is over.
UtxosDone ==
    /\ pc = "utxos"
    /\ cursor > Len(clusterAddresses)
    /\ pc' = "infos"
    /\ cursor' = 1
    /\ UNCHANGED <<progress, requests>>
    /\ UNCHANGED <<dataSource, seedAddress, progressMonitor, rejection, console, running, suspended, clusterAddresses,
                   clusterRewardAccounts, clusterUtxos, addressToExplore,
                   isDiscovering, address, rewardAccounts, rewardAccount,
                   clusterAddressInfo, clusterRewardAccountInfo, wallet>>

\* Lines 134-139: one visited reward account: its info is fetched and kept
\* unless it is null.
FetchRewardAccountInfo ==
    /\ pc = "infos"
    /\ cursor <= Len(clusterRewardAccounts)
    /\ LET account == clusterRewardAccounts[cursor]
       IN  clusterRewardAccountInfo' =
               PushRewardAccountInfo(clusterRewardAccountInfo, account,
                                     GetRewardAccountInfo(account))
    /\ cursor' = cursor + 1
    /\ requests' = Await(requests, "getRewardAccountInfo",
                         clusterRewardAccounts[cursor])
    /\ UNCHANGED progress
    /\ UNCHANGED <<dataSource, seedAddress, progressMonitor, rejection, console, running, suspended, pc, clusterAddresses,
                   clusterRewardAccounts, clusterUtxos, addressToExplore,
                   isDiscovering, address, rewardAccounts, rewardAccount,
                   clusterAddressInfo, wallet>>

\* Lines 141-154: the wallet is built and returned.
ReturnWallet ==
    /\ pc = "infos"
    /\ cursor > Len(clusterRewardAccounts)
    /\ wallet' = BuildWallet(clusterUtxos, clusterAddressInfo,
                             clusterRewardAccountInfo)
    /\ pc' = "done"
    /\ progress' = Update(progress, [text |-> "Cluster discovery complete"])
    /\ UNCHANGED requests
    /\ UNCHANGED <<dataSource, seedAddress, progressMonitor, rejection, console, running, suspended, clusterAddresses,
                   clusterRewardAccounts, clusterUtxos, addressToExplore,
                   isDiscovering, address, rewardAccounts, rewardAccount,
                   clusterAddressInfo, clusterRewardAccountInfo, cursor>>

\* run(), lines 72-86: the totals of the returned wallet are printed, then
\* the delegation state of its reward accounts against coins plus rewards.
RenderResults ==
    /\ pc = "done"
    /\ console = <<>>
    /\ LET balance == wallet.balance
           rewards == SumRewards(wallet.clusterRewardAccounts)
       IN  console' =
               <<[text |-> "Results",
                  addresses |-> Len(wallet.clusterAddresses),
                  rewardAccounts |-> Len(wallet.clusterRewardAccounts),
                  coins |-> balance.coins,
                  rewards |-> rewards]>> \o
               RenderDelegationState(wallet.clusterRewardAccounts,
                                     balance.coins + rewards)
    /\ UNCHANGED <<dataSource, seedAddress, pc, running, suspended,
                   clusterAddresses,
                   clusterRewardAccounts, clusterUtxos, addressToExplore,
                   isDiscovering, address, rewardAccounts, rewardAccount,
                   clusterAddressInfo, clusterRewardAccountInfo, cursor,
                   wallet, progressMonitor, progress, requests, rejection>>

Next ==
    \/ Discover
    \/ LoopExit
    \/ PopVisited
    \/ PopExpand
    \/ ReceiveRewardAccounts
    \/ NextRewardAccount
    \/ ReceiveAddresses
    \/ EndOfRewardAccounts
    \/ FetchUtxos
    \/ UtxosDone
    \/ FetchRewardAccountInfo
    \/ ReturnWallet
    \/ RenderResults

Spec == Init /\ [][Next]_vars

\* The same run with the frontier address taken from any position: what
\* discover does when _popFromSet is replaced by any other choice.
PopAt(set, n) ==
    [value |-> set[n],
     set |-> SubSeq(set, 1, n - 1) \o SubSeq(set, n + 1, Len(set))]

PopVisitedAny ==
    \E n \in 1..Len(addressToExplore) : PopVisitedAs(PopAt(addressToExplore, n))

PopExpandAny ==
    \E n \in 1..Len(addressToExplore) : PopExpandAs(PopAt(addressToExplore, n))

NextAnyOrder ==
    \/ Discover
    \/ LoopExit
    \/ PopVisitedAny
    \/ PopExpandAny
    \/ ReceiveRewardAccounts
    \/ NextRewardAccount
    \/ ReceiveAddresses
    \/ EndOfRewardAccounts
    \/ FetchUtxos
    \/ UtxosDone
    \/ FetchRewardAccountInfo
    \/ ReturnWallet
    \/ RenderResults

SpecAnyOrder == Init /\ [][NextAnyOrder]_vars

\* Every credential graph over the universe, explored from the seed "S".
InitFair ==
    /\ running = 1
    /\ suspended = Null
    /\ seedAddress = "S"
    /\ dataSource \in GraphSources
    /\ progressMonitor = "present"
    /\ InitRun

\* discover is one async function over a data source that answers every
\* request: a step that can be taken is eventually taken.
FairSpec == InitFair /\ [][Next]_vars /\ WF_vars(Next)

\* -------------------------------------------------------------- two calls
\* The constants and variables declared inside discover (lines 75-90), with
\* its position: what a call keeps while it waits for a promise.
Locals ==
    [seedAddress |-> seedAddress, pc |-> pc,
     clusterAddresses |-> clusterAddresses,
     clusterRewardAccounts |-> clusterRewardAccounts,
     clusterUtxos |-> clusterUtxos,
     addressToExplore |-> addressToExplore,
     isDiscovering |-> isDiscovering, address |-> address,
     rewardAccounts |-> rewardAccounts, rewardAccount |-> rewardAccount,
     clusterAddressInfo |-> clusterAddressInfo,
     clusterRewardAccountInfo |-> clusterRewardAccountInfo,
     cursor |-> cursor, wallet |-> wallet]

\* A call that has been made and has not run yet.
InitialLocals(seed) ==
    [seedAddress |-> seed, pc |-> "start",
     clusterAddresses |-> <<>>, clusterRewardAccounts |-> <<>>,
     clusterUtxos |-> <<>>, addressToExplore |-> <<>>,
     isDiscovering |-> TRUE, address |-> NoAddress,
     rewardAccounts |-> <<>>, rewardAccount |-> NoAddress,
     clusterAddressInfo |-> <<>>, clusterRewardAccountInfo |-> <<>>,
     cursor |-> 0, wallet |-> Null]

SharedByCalls(own, other) == other

\* Lines 77-80: the sets are created by new inside discover, so the call
\* that resumes finds its own, not the other call's.
CallScoped(own, other) == own

\* Where discover awaits a promise of the data source (lines 96, 104, 119,
\* 135) or has returned: only there another call can run.
AwaitPoints == {"getRewardAccounts", "getAddresses", "utxos", "infos", "done"}

\* The running call waits or has returned, and the other call runs.
Switch ==
    /\ suspended # Null
    /\ pc \in AwaitPoints
    /\ suspended.pc # "done"
    /\ suspended' = Locals
    /\ running' = (IF running = 1 THEN 2 ELSE 1)
    /\ seedAddress' = suspended.seedAddress
    /\ pc' = suspended.pc
    /\ clusterAddresses' =
           CallScoped(suspended.clusterAddresses, clusterAddresses)
    /\ clusterRewardAccounts' =
           CallScoped(suspended.clusterRewardAccounts, clusterRewardAccounts)
    /\ clusterUtxos' = suspended.clusterUtxos
    /\ addressToExplore' =
           CallScoped(suspended.addressToExplore, addressToExplore)
    /\ isDiscovering' = suspended.isDiscovering
    /\ address' = suspended.address
    /\ rewardAccounts' = suspended.rewardAccounts
    /\ rewardAccount' = suspended.rewardAccount
    /\ clusterAddressInfo' = suspended.clusterAddressInfo
    /\ clusterRewardAccountInfo' = suspended.clusterRewardAccountInfo
    /\ cursor' = suspended.cursor
    /\ wallet' = suspended.wallet
    /\ UNCHANGED <<dataSource, progressMonitor, progress, requests,
                   rejection, console>>

\* The data sources of two calls: S has K1, T has K1 and K2, U has K2; K1
\* lists T, with or without S, and K2 lists nothing, U, or T and U.
TwoCallSources ==
    {[networkId |-> 0,
      rewardAccounts |-> [a \in Address |->
                            IF a = "S" THEN {"K1"}
                            ELSE IF a = "T" THEN {"K1", "K2"} ELSE {"K2"}],
      addresses |-> [k \in RewardAccount |-> IF k = "K1" THEN a1 ELSE a2],
      utxos |-> BaseUtxos, info |-> BaseInfo] :
        a1 \in {{"T"}, {"S", "T"}}, a2 \in {{}, {"U"}, {"T", "U"}}}

\* discover is called twice on one data source and one progress monitor;
\* the first call runs until it waits, then the second starts.
InitTwoCalls ==
    /\ running = 1
    /\ \E seed \in {"T", "U"} : suspended = InitialLocals(seed)
    /\ seedAddress = "S"
    /\ dataSource \in TwoCallSources
    /\ progressMonitor = "present"
    /\ InitRun

NextTwoCalls ==
    \/ Discover
    \/ LoopExit
    \/ PopVisited
    \/ PopExpand
    \/ ReceiveRewardAccounts
    \/ NextRewardAccount
    \/ ReceiveAddresses
    \/ EndOfRewardAccounts
    \/ FetchUtxos
    \/ UtxosDone
    \/ FetchRewardAccountInfo
    \/ ReturnWallet
    \/ Switch

SpecTwoCalls == InitTwoCalls /\ [][NextTwoCalls]_vars

\* ----------------------------------------------------------- rejections
\* The run() of the command line: a testnet Blockfrost data source over any
\* state of the service.
BlockfrostSources ==
    {BlockfrostBlockchainDataSource(api, TRUE) : api \in ApiStates}

\* A data source of another implementation that rejects nothing: S has the
\* reward account K1, and K1 lists up to MaxListed addresses of any kind,
\* decodable or not.
ListingSources ==
    {[networkId |-> 0,
      api |-> Null,
      rewardAccounts |-> [a \in AnyAddress |->
                            IF a = "S" THEN {"K1"} ELSE {}],
      addresses |-> [k \in RewardAccount |->
                            IF k = "K1" THEN ad ELSE {}],
      utxos |-> [a \in AnyAddress |->
                            IF a \in Address THEN BaseUtxos[a] ELSE <<>>],
      info |-> BaseInfo,
      rejects |-> {}] :
        ad \in {set \in SUBSET AnyAddress :
                   Cardinality(set) \in 1..MaxListed}}

\* Any seed over the Blockfrost data source; the listing data source from
\* the seed S, also with a progress monitor whose update throws.
InitRejections ==
    /\ running = 1
    /\ suspended = Null
    /\ \/ /\ seedAddress \in AnyAddress
          /\ dataSource \in BlockfrostSources
          /\ progressMonitor \in {"absent", "present"}
       \/ /\ seedAddress = "S"
          /\ dataSource \in ListingSources
          /\ progressMonitor \in {"absent", "present", "failing"}
    /\ InitRun

\* The request discover is waiting for, or is about to make in its next step.
NoRequest == [op |-> "none", arg |-> NoAddress]

PendingRequest ==
    IF pc = "getRewardAccounts"
    THEN [op |-> "getRewardAccounts", arg |-> address]
    ELSE IF pc = "getAddresses"
    THEN [op |-> "getAddresses", arg |-> rewardAccount]
    ELSE IF pc = "utxos" /\ cursor <= Len(clusterAddresses)
    THEN [op |-> "getUtxos", arg |-> clusterAddresses[cursor]]
    ELSE IF pc = "infos" /\ cursor <= Len(clusterRewardAccounts)
    THEN [op |-> "getRewardAccountInfo", arg |-> clusterRewardAccounts[cursor]]
    ELSE NoRequest

RequestRejects ==
    <<PendingRequest.op, PendingRequest.arg>> \in dataSource.rejects

\* Lines 128-129: the credentials of the cluster address at the cursor
\* cannot be resolved.
ResolutionThrows ==
    /\ pc = "utxos"
    /\ cursor <= Len(clusterAddresses)
    /\ \/ GetPaymentCredential(clusterAddresses[cursor]).threw
       \/ GetStakingCredential(clusterAddresses[cursor],
                               dataSource.networkId).threw

MonitorThrows == pc = "start" /\ progressMonitor = "failing"

\* The next step of discover throws or awaits a promise that rejects.
RejectionPending == MonitorThrows \/ RequestRejects \/ ResolutionThrows

Rejected == pc = "failed"

\* Line 82: progressMonitor.update throws; nothing in discover catches it.
UpdateThrows ==
    /\ MonitorThrows
    /\ pc' = "failed"
    /\ rejection' = [op |-> "update", arg |-> seedAddress]
    /\ UNCHANGED <<dataSource, seedAddress, progressMonitor, console, running, suspended, clusterAddresses,
                   clusterRewardAccounts, clusterUtxos, addressToExplore,
                   isDiscovering, address, rewardAccounts, rewardAccount,
                   clusterAddressInfo, clusterRewardAccountInfo, cursor,
                   wallet, progress, requests>>

\* Lines 96 and 119: the awaited promise of the data source rejects; nothing
\* in discover catches it.
LookupRejects ==
    /\ RequestRejects
    /\ pc' = "failed"
    /\ rejection' = PendingRequest
    /\ requests' = IF pc = "utxos"
                   THEN Call(requests, PendingRequest.op, PendingRequest.arg)
                   ELSE requests
    /\ UNCHANGED <<dataSource, seedAddress, progressMonitor, console, running, suspended, clusterAddresses,
                   clusterRewardAccounts, clusterUtxos, addressToExplore,
                   isDiscovering, address, rewardAccounts, rewardAccount,
                   clusterAddressInfo, clusterRewardAccountInfo, cursor,
                   wallet, progress>>

\* Lines 119-129: the UTXOs of the cluster address are fetched and kept, and
\* getPaymentCredential(clusterAddress) throws while its AddressInfo is
\* built; nothing in discover catches it.
CredentialThrows ==
    /\ ~RequestRejects
    /\ ResolutionThrows
    /\ clusterUtxos' = clusterUtxos \o GetUtxos(clusterAddresses[cursor])
    /\ requests' = Await(requests, "getUtxos", clusterAddresses[cursor])
    /\ pc' = "failed"
    /\ rejection' = [op |-> "getPaymentCredential",
                     arg |-> clusterAddresses[cursor]]
    /\ UNCHANGED <<dataSource, seedAddress, progressMonitor, console, running, suspended, clusterAddresses,
                   clusterRewardAccounts, addressToExplore, isDiscovering,
                   address, rewardAccounts, rewardAccount, clusterAddressInfo,
                   clusterRewardAccountInfo, cursor, wallet, progress>>

\* discover with everything that can end it: a step is taken as in Next
\* unless it throws.
NextRejections ==
    \/ ~RejectionPending /\ Discover
    \/ ~RejectionPending /\ LoopExit
    \/ ~RejectionPending /\ PopVisited
    \/ ~RejectionPending /\ PopExpand
    \/ ~RejectionPending /\ ReceiveRewardAccounts
    \/ ~RejectionPending /\ NextRewardAccount
    \/ ~RejectionPending /\ ReceiveAddresses
    \/ ~RejectionPending /\ EndOfRewardAccounts
    \/ ~RejectionPending /\ FetchUtxos
    \/ ~RejectionPending /\ UtxosDone
    \/ ~RejectionPending /\ FetchRewardAccountInfo
    \/ ~RejectionPending /\ ReturnWallet
    \/ ~RejectionPending /\ RenderResults
    \/ UpdateThrows
    \/ LookupRejects
    \/ CredentialThrows

SpecRejections == InitRejections /\ [][NextRejections]_vars

\* ================================================================ properties
\* a links to b when b is in addressesFor(k) for some k in rewardAccountsFor(a)
Links(a) ==
    UNION {dataSource.addresses[k] : k \in dataSource.rewardAccounts[a]}

RECURSIVE Closure(_)
Closure(set) ==
    LET more == set \cup UNION {Links(a) : a \in set}
    IN  IF more = set THEN set ELSE Closure(more)

\* The reflexive-transitive closure of the link relation from the seed.
Reachable == Closure({seedAddress})

Returned == pc = "done"

WalletAddresses ==
    {wallet.clusterAddresses[n].address : n \in 1..Len(wallet.clusterAddresses)}

Occurrences(addr) ==
    Cardinality({n \in 1..Len(wallet.clusterAddresses) :
                     wallet.clusterAddresses[n].address = addr})

RECURSIVE SumOfValues(_)
SumOfValues(utxos) ==
    IF utxos = {} THEN ZeroValue
    ELSE LET u == CHOOSE x \in utxos : TRUE
         IN  AddValue(u.value, SumOfValues(utxos \ {u}))

RECURSIVE SumOfRewards(_)
SumOfRewards(infos) ==
    IF infos = {} THEN 0
    ELSE LET i == CHOOSE x \in infos : TRUE
         IN  i.rewards + SumOfRewards(infos \ {i})

\* C1: the address set of the returned wallet is exactly the set reachable
\* from the seed by the reflexive-transitive closure of the link relation.
C1_ClusterIsClosure == Returned => WalletAddresses = Reachable

\* C2: in every state of discover and in the returned wallet, every
\* cluster address is reachable from the seed by a finite chain of links.
C2_ClusterReachable ==
    /\ Range(clusterAddresses) \subseteq Reachable
    /\ Returned => WalletAddresses \subseteq Reachable

C2_Witness ==
    /\ Returned
    /\ \E a \in WalletAddresses : a # seedAddress
    /\ Reachable # Address

\* C3: when the seed A links to another address B and B links back to A,
\* the returned address list holds A and B, each exactly once.
C3_CycleBothOnce ==
    Returned =>
        \A b \in Address \ {seedAddress} :
            (b \in Links(seedAddress) /\ seedAddress \in Links(b)) =>
                Occurrences(seedAddress) = 1 /\ Occurrences(b) = 1

C5_NoDuplicateUtxos ==
    Returned =>
        \A m, n \in 1..Len(wallet.utxos) :
            SameOutput(wallet.utxos[m], wallet.utxos[n]) => m = n

\* One answer lists a UTXO twice and another address reports it again.
C5_Witness ==
    /\ Returned
    /\ \E u \in UtxoPool :
           /\ dataSource.utxos["S"] = <<u, u>>
           /\ u \in Range(dataSource.utxos["T"])
           /\ u \in Range(wallet.utxos)

\* C6: the balance of the returned wallet (coins and every asset) is the
\* pointwise sum of the values of the distinct UTXOs of its UTXO list; a
\* UTXO reported under several addresses is counted once.
C6_BalanceIsSum ==
    Returned =>
        /\ wallet.balance = SumOfValues(Range(wallet.utxos))
        /\ wallet.balance = SumOfValues(Range(clusterUtxos))

C6_Witness ==
    /\ Returned
    /\ Utxo400 \in Range(dataSource.utxos["S"])
    /\ Utxo400 \in Range(dataSource.utxos["T"])
    /\ Utxo7 \in Range(wallet.utxos)
    /\ wallet.balance = [coins |-> 407, assets |-> [a \in AssetId |-> 8]]

\* C7: an address without reward accounts that is the seed or reachable
\* from it is in the returned address set, with its UTXOs in the wallet's
\* UTXO list, and adds no reward account.
C7_UnstakedIncluded ==
    Returned =>
        \A a \in Reachable :
            GetRewardAccounts(a) = {} =>
                /\ a \in WalletAddresses
                /\ Range(GetUtxos(a)) \subseteq Range(wallet.utxos)

\* C8: a visited reward account whose info is absent is left out of the
\* returned reward-account list and of the rewards total, which is the sum
\* over the retained infos; the addresses it led to stay in the cluster.
C8_AbsentInfoDropped ==
    Returned =>
        LET visited == Range(clusterRewardAccounts)
            retained == {GetRewardAccountInfo(k) : k \in visited} \ {Null}
        IN  /\ Range(wallet.clusterRewardAccounts) = retained
            /\ Len(wallet.clusterRewardAccounts) = Cardinality(retained)
            /\ wallet.rewards = SumOfRewards(retained)
            /\ \A k \in visited :
                   GetRewardAccountInfo(k) = Null =>
                       /\ \A n \in 1..Len(wallet.clusterRewardAccounts) :
                              wallet.clusterRewardAccounts[n].stakingCredential # k
                       /\ GetAddresses(k) \subseteq WalletAddresses

C8_Witness ==
    /\ Returned
    /\ "K2" \in Range(clusterRewardAccounts)
    /\ GetRewardAccountInfo("K2") = Null
    /\ GetAddresses("K2") # {}
    /\ wallet.rewards = 50

\* What the seed and the data source alone determine.
SeedAccounts == dataSource.rewardAccounts[seedAddress]
SeedAddresses == UNION {dataSource.addresses[k] : k \in SeedAccounts}
SeedUtxos == UNION {Range(dataSource.utxos[a]) : a \in SeedAddresses}
SeedInfos == {dataSource.info[k] : k \in SeedAccounts} \ {Null}

\* C9: whatever order addresses leave the frontier and whatever order the
\* data source lists its answers, the returned address, reward-account and
\* UTXO sets and both totals are the same: they equal values that depend
\* on the seed and the data source only.
C9_OrderIndependent ==
    Returned =>
        /\ WalletAddresses = SeedAddresses
        /\ Range(wallet.clusterRewardAccounts) = SeedInfos
        /\ Range(wallet.utxos) = SeedUtxos
        /\ wallet.balance = SumOfValues(SeedUtxos)
        /\ wallet.rewards = SumOfRewards(SeedInfos)

\* A run that listed both answers against the universe's order and took
\* the frontier's first address ("U") last.
C9_Witness ==
    /\ Returned
    /\ clusterRewardAccounts = <<"K2", "K1">>
    /\ clusterAddresses = <<"U", "T", "S">>
    /\ address = "U"

Scenario ==
    /\ seedAddress = "S"
    /\ dataSource.addresses["K1"] = {"S", "T"}
    /\ dataSource.rewardAccounts["S"] = {"K1"}
    /\ dataSource.rewardAccounts["T"] = {"K1"}
    /\ dataSource.info["K1"] = Info50
    /\ dataSource.utxos["S"] = <<Utxo600>>
    /\ dataSource.utxos["T"] = <<Utxo400>>

\* C10: in the scenario (K1 gives S and T, S and T have K1, K1 has rewards
\* 50, S holds 600 coins and T 400) discover(S) returns addresses {S, T},
\* reward accounts {K1}, total coins 1000 and total rewards 50.
C10_Scenario ==
    (Returned /\ Scenario) =>
        /\ WalletAddresses = {"S", "T"}
        /\ Len(wallet.clusterAddresses) = 2
        /\ {wallet.clusterRewardAccounts[n].stakingCredential :
                n \in 1..Len(wallet.clusterRewardAccounts)} = {"K1"}
        /\ wallet.balance.coins = 1000
        /\ wallet.rewards = 50

C10_Witness == Returned /\ Scenario

\* ------------------------------------------------------ rejected runs
Lookups == {"getRewardAccounts", "getAddresses", "getUtxos",
            "getRewardAccountInfo"}

\* The payment credential of the seed cannot be resolved.
SeedMalformed == GetPaymentCredential(seedAddress).threw

\* C11: over the Blockfrost data source, discover returns no wallet when the
\* seed address is malformed or the service cannot be reached, and it is
\* rejected in no other case: an unknown address, an address without UTXOs
\* or an unknown reward account end in a returned wallet.
C11_RejectedOnlyForSeedOrProvider ==
    dataSource.api # Null =>
        /\ (SeedMalformed \/ ~dataSource.api.reachable) => ~Returned
        /\ Rejected => (SeedMalformed \/ ~dataSource.api.reachable)

\* C12: no lookup of the data source raises: no run of discover is rejected
\* by getRewardAccounts, getRewardAccountInfo, getAddresses or getUtxos.
C12_LookupsNeverRaise ==
    rejection # Null => rejection.op \notin Lookups

\* C13: a progress monitor whose update throws does not fail discover.
C13_MonitorNeverFailsDiscover ==
    progressMonitor = "failing" => ~Rejected

\* ------------------------------------------------- the request history
CallsOf(op) ==
    {n \in 1..Len(requests) :
         requests[n].event = "call" /\ requests[n].op = op}

Requested(op) == {requests[n].arg : n \in CallsOf(op)}

LoopEnded == pc \in {"utxos", "infos", "done"}

\* C14: when the frontier loop has ended, rewardAccountsFor has been
\* requested for every cluster address and addressesFor for every visited
\* reward account.
C14_Fixpoint ==
    LoopEnded =>
        /\ Range(clusterAddresses) \subseteq Requested("getRewardAccounts")
        /\ Range(clusterRewardAccounts) \subseteq Requested("getAddresses")

\* C15: rewardAccountsFor(a) is requested only for an address already in
\* clusterAddresses, and addressesFor(k) only for a reward account already
\* in the visited reward-account set.
C15_VisitedBeforeExpanded ==
    /\ pc = "getRewardAccounts" => address \in Range(clusterAddresses)
    /\ pc = "getAddresses" => rewardAccount \in Range(clusterRewardAccounts)

\* C16: within one run no lookup is requested twice with the same argument.
C16_NoRepeatedLookup ==
    \A m, n \in 1..Len(requests) :
        (/\ requests[m].event = "call"
         /\ requests[n].event = "call"
         /\ requests[m].op = requests[n].op
         /\ requests[m].arg = requests[n].arg) => m = n

\* The seed and a second address were met again after their discovery, on
\* a graph where both reward accounts lead to the same addresses.
C16_Witness ==
    /\ Returned
    /\ Len(clusterRewardAccounts) = 2
    /\ seedAddress \in Range(clusterAddresses)
    /\ \E a \in Address \ {seedAddress} :
           a \in GetAddresses("K1") /\ a \in GetAddresses("K2")
    /\ Len(requests) >= 10

\* C17: when getAddresses lists an address other than the seed whose
\* payment credential cannot be resolved, discover is not rejected for it.
C17_MalformedListedAddress ==
    (rejection # Null /\ rejection.op = "getPaymentCredential") =>
        rejection.arg = seedAddress

\* C18: over the Blockfrost data source, every UTXO in the utxos of an
\* AddressInfo is located at the address of that AddressInfo.
C18_UtxosAtAddress ==
    dataSource.api # Null =>
        \A n \in 1..Len(clusterAddressInfo) :
            \A m \in 1..Len(clusterAddressInfo[n].utxos) :
                clusterAddressInfo[n].utxos[m].address =
                    clusterAddressInfo[n].address

\* C24: getPaymentCredential yields a credential only for a decodable
\* address whose payment part is a key hash: every AddressInfo, which
\* carries the credential resolved for its address, is of such an address.
C24_OnlyKeyHashResolves ==
    \A n \in 1..Len(clusterAddressInfo) :
        LET decoded == FromBech32(clusterAddressInfo[n].address)
        IN  /\ ~decoded.threw
            /\ decoded.value.type \in {"base", "enterprise"}
            /\ decoded.value.payment.type = "key"

RECURSIVE SumUpTo(_, _)
SumUpTo(utxos, n) ==
    IF n = 0 THEN ZeroValue ELSE AddValue(SumUpTo(utxos, n - 1), utxos[n].value)

\* C19: the returned address list has one AddressInfo per cluster address,
\* in which utxos is the answer of utxosFor for the address and balance the
\* pointwise sum of their values; the wallet's UTXO list is the union of
\* the per-address lists with one instance per (txHash, index).
C19_AddressInfos ==
    Returned =>
        /\ Len(wallet.clusterAddresses) = Len(clusterAddresses)
        /\ \A n \in 1..Len(wallet.clusterAddresses) :
               LET info == wallet.clusterAddresses[n]
               IN  /\ info.address = clusterAddresses[n]
                   /\ info.utxos = GetUtxos(info.address)
                   /\ info.balance = SumUpTo(info.utxos, Len(info.utxos))
        /\ Range(wallet.utxos) =
               UNION {Range(wallet.clusterAddresses[n].utxos) :
                          n \in 1..Len(wallet.clusterAddresses)}
        /\ Cardinality(Range(wallet.utxos)) = Len(wallet.utxos)

C19_Witness ==
    /\ Returned
    /\ Len(wallet.clusterAddresses) = 2
    /\ wallet.clusterAddresses[1].utxos = <<Utxo400, Utxo400>>
    /\ wallet.clusterAddresses[2].utxos = <<Utxo7, Utxo400>>
    /\ Len(wallet.utxos) = 2

\* C20: a call of the data source is issued only when every earlier call
\* has returned, so at most one is outstanding; getUtxos and
\* getRewardAccountInfo are called only once the frontier loop has ended.
C20_Sequential ==
    /\ \A n \in 1..Len(requests) :
           requests[n].event = "call" =>
               \/ n = Len(requests)
               \/ requests[n + 1] = [event |-> "return", op |-> requests[n].op,
                                     arg |-> requests[n].arg]
    /\ \A n \in CallsOf("getUtxos") \cup CallsOf("getRewardAccountInfo") :
           /\ LoopEnded
           /\ \A m \in CallsOf("getRewardAccounts") \cup CallsOf("getAddresses") :
                  m < n

C20_Witness ==
    /\ Returned
    /\ Cardinality(CallsOf("getAddresses")) = 2
    /\ Cardinality(CallsOf("getUtxos")) = 3
    /\ Cardinality(CallsOf("getRewardAccountInfo")) = 2

\* ------------------------------------------------------- notifications
\* The arguments of the calls of a lookup, in the order of the calls.
ArgsOf(op) ==
    LET IsCall(e) == e.event = "call" /\ e.op = op
        calls == SelectSeq(requests, IsCall)
    IN  [n \in 1..Len(calls) |-> calls[n].arg]

\* The notifications with a text, in the order of their delivery.
Notified(text) ==
    LET HasText(m) == m.text = text
    IN  SelectSeq(progress, HasText)

\* The addresses of getAddresses(k) that no reward account searched before
\* the n-th search had listed.
NewAt(searched, n) ==
    GetAddresses(searched[n]) \
        UNION {GetAddresses(searched[m]) : m \in 1..(n - 1)}

\* C21: with a progress monitor, the first notification is the start naming
\* the seed and the last one of a returned run is the completion; each
\* getRewardAccounts call has its lookup notification and each getAddresses
\* call its search notification, issued with the call and in the same
\* order; every search notification is followed, once the call is answered,
\* by one notification whose count is the number of addresses the answer
\* added to the cluster.
C21_NotificationsOrdered ==
    progressMonitor = "present" =>
        LET lookups == Notified("Getting reward accounts for")
            searches == Notified("Searching for new addresses")
            founds == Notified("Found new addresses")
        IN  /\ pc # "start" =>
                   progress[1] = [text |-> "Starting cluster discovery from seed",
                                  address |-> seedAddress]
            /\ Len(Notified("Starting cluster discovery from seed")) =
                   (IF pc = "start" THEN 0 ELSE 1)
            /\ Returned =>
                   progress[Len(progress)] = [text |-> "Cluster discovery complete"]
            /\ Len(Notified("Cluster discovery complete")) =
                   (IF Returned THEN 1 ELSE 0)
            /\ [n \in 1..Len(lookups) |-> lookups[n].address] =
                   ArgsOf("getRewardAccounts")
            /\ [n \in 1..Len(searches) |-> searches[n].rewardAccount] =
                   ArgsOf("getAddresses")
            /\ \A n \in 1..Len(progress) :
                   progress[n].text = "Searching for new addresses" =>
                       IF n = Len(progress) THEN pc = "getAddresses"
                       ELSE progress[n + 1].text = "Found new addresses"
            /\ \A n \in 1..Len(progress) :
                   progress[n].text = "Found new addresses" =>
                       progress[n - 1].text = "Searching for new addresses"
            /\ \A n \in 1..Len(founds) :
                   founds[n].count =
                       Cardinality(NewAt(ArgsOf("getAddresses"), n))

\* A returned run with two searches, of which the second found nothing new.
C21_Witness ==
    /\ Returned
    /\ progressMonitor = "present"
    /\ Len(progress) = 7
    /\ progress[4].text = "Found new addresses" /\ progress[4].count = 2
    /\ progress[6].text = "Found new addresses" /\ progress[6].count = 0

\* ------------------------------------------------------------ two calls
RECURSIVE UtxosOfAll(_)
\* The getUtxos answers of the addresses, one after the other.
UtxosOfAll(addrs) ==
    IF addrs = <<>> THEN <<>>
    ELSE GetUtxos(Head(addrs)) \o UtxosOfAll(Tail(addrs))

RECURSIVE InfosOfAll(_, _)
\* The infos of the first n reward accounts, the absent ones left out.
InfosOfAll(accounts, n) ==
    IF n = 0 THEN <<>>
    ELSE LET before == InfosOfAll(accounts, n - 1)
             info == GetRewardAccountInfo(accounts[n])
         IN  IF info = Null THEN before ELSE Append(before, info)

\* What a call running alone returns: the reward accounts of its seed, the
\* addresses they list, each once, and the wallet of these on the data
\* source.
ReturnsAsAlone(l) ==
    l.pc = "done" =>
        /\ Range(l.clusterRewardAccounts) = GetRewardAccounts(l.seedAddress)
        /\ Len(l.clusterRewardAccounts) =
               Cardinality(GetRewardAccounts(l.seedAddress))
        /\ Range(l.clusterAddresses) =
               UNION {GetAddresses(k) : k \in GetRewardAccounts(l.seedAddress)}
        /\ Len(l.clusterAddresses) = Cardinality(Range(l.clusterAddresses))
        /\ l.wallet.utxos = DedupUtxos(UtxosOfAll(l.clusterAddresses))
        /\ l.wallet.balance = SumOfValues(Range(l.wallet.utxos))
        /\ l.wallet.clusterAddresses =
               [n \in 1..Len(l.clusterAddresses) |->
                   AddressInfoOf(l.clusterAddresses[n],
                                 GetUtxos(l.clusterAddresses[n]))]
        /\ l.wallet.clusterRewardAccounts =
               InfosOfAll(l.clusterRewardAccounts, Len(l.clusterRewardAccounts))
        /\ l.wallet.rewards = SumOfRewards(Range(l.wallet.clusterRewardAccounts))

\* A step of the running call leaves the locals of the waiting call as they
\* are; when the calls change places, each finds its locals as it left them.
CallsIsolated ==
    /\ running' = running => suspended' = suspended
    /\ running' # running => (suspended' = Locals /\ Locals' = suspended)

\* C22: two discover calls that interleave at their awaits share no state:
\* each returns what it returns alone on the same data source, and the
\* frontier and the visited sets of the waiting call are neither read nor
\* changed by the running one.
C22_CallsIndependent ==
    /\ [](suspended # Null =>
             (ReturnsAsAlone(Locals) /\ ReturnsAsAlone(suspended)))
    /\ [][CallsIsolated]_vars

\* Both calls have returned, with different wallets, after the second call
\* made its first request while the first call's was still outstanding.
C22_Witness ==
    /\ suspended # Null
    /\ pc = "done" /\ suspended.pc = "done"
    /\ requests[1].event = "call" /\ requests[2].event = "call"
    /\ Len(wallet.clusterAddresses) = 2
    /\ Len(suspended.wallet.clusterAddresses) = 2
    /\ wallet.clusterAddresses # suspended.wallet.clusterAddresses

\* ------------------------------------------------------ delegation state
\* The entries printed by renderDelegationState, after the totals.
RenderedAccounts == SubSeq(console, 2, Len(console))

TotalBalance == wallet.balance.coins + wallet.rewards

\* A number of ten-thousandths written with four decimals.
FourDecimals(p) ==
    [kind |-> "finite", int |-> p \div 10000,
     frac |-> <<(p \div 1000) % 10, (p \div 100) % 10, (p \div 10) % 10,
                p % 10>>]

\* C23 as stated: in the scenario the delegation state of K1 is rendered as
\* staked with pool P1 with the percentage 95.2381.
C23_PercentageAsStated ==
    (Returned /\ Scenario) =>
        \A n \in 1..Len(RenderedAccounts) :
            RenderedAccounts[n].stakingCredential = "K1" =>
                /\ RenderedAccounts[n].delegation = "staked with pool"
                /\ RenderedAccounts[n].poolId = "P1"
                /\ RenderedAccounts[n].stakedPercentage = FourDecimals(952381)

\* C23, amended: the percentage rendered for an account is stakedAmount /
\* (total coins + total rewards) * 100 cut after four decimals (rounded
\* down); in the scenario K1 is rendered as staked with pool P1 with
\* 95.2380.
C23_PercentageRoundedDown ==
    /\ \A n \in 1..Len(RenderedAccounts) :
           TotalBalance > 0 =>
               RenderedAccounts[n].stakedPercentage =
                   FourDecimals((RenderedAccounts[n].stakedAmount * 1000000)
                                    \div TotalBalance)
    /\ (Returned /\ Scenario) =>
           \A n \in 1..Len(RenderedAccounts) :
               RenderedAccounts[n].stakingCredential = "K1" =>
                   /\ RenderedAccounts[n].delegation = "staked with pool"
                   /\ RenderedAccounts[n].poolId = "P1"
                   /\ RenderedAccounts[n].stakedPercentage =
                          FourDecimals(952380)

\* The results of the scenario have been printed: coins 1000, rewards 50
\* and the delegation state of K1, staked amount 1000.
C23_Witness ==
    /\ Returned /\ Scenario
    /\ Len(console) = 2
    /\ console[1].coins = 1000 /\ console[1].rewards = 50
    /\ console[2].stakingCredential = "K1"
    /\ console[2].stakedAmount = 1000

SeedRewardAccounts == GetRewardAccounts(seedAddress)

====
